---- MODULE Spec2Model ----
(***************************************************************************)
(* Model of retdec's IrModifier (src/bin2llvmir/utils/ir_modifier.cpp):    *)
(* the type converter convertToType, the stack-slot and global-variable    *)
(* materializers and changeObjectType, over a small typed SSA IR and the   *)
(* config mirror of its objects.                                           *)
(***************************************************************************)
EXTENDS Integers, Sequences, FiniteSets, TLC

VARIABLES
    vals,       \* every llvm::Value ever created: Seq of records, id = index
    body,       \* body[f]: the instructions of function f's entry block, in order
    module,     \* ids of the GlobalVariables that are in the llvm::Module
    config,     \* Config's global objects: set of [name, addr, type, wide]
    stack,      \* Config's stack variables: set of [fn, off, alloca]
    eraseSet,   \* the caller's instToErase container
    image,      \* the FileImage / debug info: what can be read at each address
    last        \* the last call made: its arguments, its result, the state before

vars == <<vals, body, module, config, stack, eraseSet, image, last>>

Null == 0          \* nullptr
NoName == <<"", 0>>

-----------------------------------------------------------------------------
(* llvm::Type.  A type is a number: its kind in the low three bits, and    *)
(* above them the width (integer, float), the element type (pointer,       *)
(* array) or the index of the struct in StructDef.                         *)

KVoid == 7
KInt == 1
KFloat == 2
KPtr == 3
KStruct == 4
KArray == 5
KFunc == 6

VoidTy == KVoid
FuncTy == KFunc
IntTy(w) == w * 8 + KInt
FloatTy(w) == w * 8 + KFloat
PtrTo(t) == t * 8 + KPtr
ArrTy(t) == t * 8 + KArray
StructTy(i) == i * 8 + KStruct

Kind(t) == t % 8
Payload(t) == t \div 8

isPointerTy(t) == Kind(t) = KPtr
isIntegerTy(t) == Kind(t) = KInt
isFloatingPointTy(t) == Kind(t) = KFloat
isAggregateType(t) == Kind(t) \in {KStruct, KArray}
\* dyn_cast<CompositeType>: a struct or an array
isCompositeType(t) == Kind(t) \in {KStruct, KArray}
\* the element type of a pointer
getElementType(t) == Payload(t)
\* bits of an integer or floating-point type
getPrimitiveSizeInBits(t) == Payload(t)

I24 == IntTy(24)
I32 == IntTy(32)
I64 == IntTy(64)
F32 == FloatTy(32)
F64 == FloatTy(64)

\* the struct types of the module: the fields of struct i
StructDef == << <<I32, I32>>, <<F64, I32>>, <<StructTy(1), I64>> >>

\* CompositeType::getTypeAtIndex(0): the first field or the element
getTypeAtIndex0(t) ==
    IF Kind(t) = KStruct THEN StructDef[Payload(t)][1] ELSE Payload(t)

\* PointerType::isValidElementType
isValidElementType(t) == Kind(t) \notin {KVoid}

\* Abi::getDefaultType: the integer of the target's word width
DefaultType == I32

-----------------------------------------------------------------------------
(* llvm::Value.  kind is one of                                            *)
(*   "const"  a plain constant (ConstantInt, ConstantFP, null, undef)      *)
(*   "cexpr"  a ConstantExpr (op: the cast or extract/insertvalue)         *)
(*   "global" a GlobalVariable; ops = <<initializer>> or <<>>              *)
(*   "arg"    a function Argument                                          *)
(*   "alloca", "load", "store", "cast", "extractvalue", "insertvalue",     *)
(*   "other"  instructions; a store's ops are <<value, pointer>>           *)
(* The state of the IR is the record [vals, body, module].                 *)

Value(k, t, o, c, n) == [kind |-> k, type |-> t, ops |-> o, op |-> c, name |-> n]

InstrKinds == {"alloca", "load", "store", "cast", "extractvalue", "insertvalue", "other"}
ConstKinds == {"const", "cexpr", "global"}

Fns == DOMAIN body

isInstruction(ir, v) == v # Null /\ ir.vals[v].kind \in InstrKinds
isConstant(ir, v) == v # Null /\ ir.vals[v].kind \in ConstKinds
isGlobalVariable(ir, v) == v # Null /\ ir.vals[v].kind = "global"

InSeq(s, x) == \E i \in DOMAIN s : s[i] = x
IndexOf(s, x) == CHOOSE i \in DOMAIN s : s[i] = x
\* the sequence s with x put in as its i-th element
InsertAt(s, i, x) == SubSeq(s, 1, i - 1) \o <<x>> \o SubSeq(s, i, Len(s))
Without(s, x) == SelectSeq(s, LAMBDA y : y # x)

\* Instruction::getFunction, for an instruction that is in a block
getFunction(ir, i) == CHOOSE f \in DOMAIN ir.body : InSeq(ir.body[f], i)
inBlock(ir, i) == \E f \in DOMAIN ir.body : InSeq(ir.body[f], i)

\* a new value: the state with it, and its id
NewId(ir) == Len(ir.vals) + 1
AddValue(ir, v) == [ir EXCEPT !.vals = Append(@, v)]

\* Instruction::insertBefore, Instruction::insertAfter
insertBefore(ir, i, b) ==
    LET f == getFunction(ir, b) IN
    [ir EXCEPT !.body[f] = InsertAt(@, IndexOf(@, b), i)]
insertAfter(ir, i, a) ==
    LET f == getFunction(ir, a) IN
    [ir EXCEPT !.body[f] = InsertAt(@, IndexOf(@, a) + 1, i)]
\* Instruction::eraseFromParent
eraseFromParent(ir, i) ==
    [ir EXCEPT !.body = [f \in DOMAIN @ |-> Without(@[f], i)]]

insertBeforeAfter(ir, i, b, a) ==
    IF b # Null THEN insertBefore(ir, i, b) ELSE insertAfter(ir, i, a)

\* what is present in the IR: instructions in a block, globals in the module,
\* and constants, which live in the context
present(ir, v) ==
    CASE ir.vals[v].kind \in InstrKinds -> inBlock(ir, v)
      [] ir.vals[v].kind = "global" -> v \in ir.module
      [] OTHER -> TRUE

\* Value::users(): one entry per use, of the users that exist
Uses(ir, v) ==
    {<<u, i>> \in (DOMAIN ir.vals) \X (1..2) :
        /\ present(ir, u)
        /\ i \in DOMAIN ir.vals[u].ops
        /\ ir.vals[u].ops[i] = v}

\* User::replaceUsesOfWith
replaceUsesOfWith(ir, u, from, to) ==
    [ir EXCEPT !.vals[u].ops = [i \in DOMAIN @ |-> IF @[i] = from THEN to ELSE @[i]]]
\* User::setOperand (operands are numbered from 0 in the code)
setOperand(ir, u, n, to) == [ir EXCEPT !.vals[u].ops[n + 1] = to]
\* Value::replaceAllUsesWith
replaceAllUsesWith(ir, from, to) ==
    [ir EXCEPT !.vals = [u \in DOMAIN @ |->
        IF present(ir, u)
        THEN [@[u] EXCEPT !.ops = [i \in DOMAIN @ |-> IF @[i] = from THEN to ELSE @[i]]]
        ELSE @[u]]]

Ret(ir, r) == [ir |-> ir, ret |-> r]

-----------------------------------------------------------------------------
(* convertToType (ir_modifier.cpp:42-282).  Every operator returns the     *)
(* state after the call and the value returned.                            *)

\* one cast: a ConstantExpr when constExpr, else a new instruction put in
\* before `before` or after `after`
createCast(ir, op, val, type, before, after, constExpr) ==
    IF constExpr
    THEN Ret(AddValue(ir, Value("cexpr", type, <<val>>, op, NoName)), NewId(ir))
    ELSE Ret(insertBeforeAfter(
                AddValue(ir, Value("cast", type, <<val>>, op, NoName)),
                NewId(ir), before, after),
             NewId(ir))

\* ExtractValue at index 0
createExtractValue(ir, val, before, after, constExpr) ==
    LET t == getTypeAtIndex0(ir.vals[val].type) IN
    IF constExpr
    THEN Ret(AddValue(ir, Value("cexpr", t, <<val>>, "extractvalue", NoName)), NewId(ir))
    ELSE Ret(insertBeforeAfter(
                AddValue(ir, Value("extractvalue", t, <<val>>, "extractvalue", NoName)),
                NewId(ir), before, after),
             NewId(ir))

\* InsertValue of tmp into undef of type cmp, at index 0
createInsertValue(ir, tmp, cmp, before, after, constExpr) ==
    IF constExpr
    THEN Ret(AddValue(ir, Value("cexpr", cmp, <<tmp>>, "insertvalue", NoName)), NewId(ir))
    ELSE Ret(insertBeforeAfter(
                AddValue(ir, Value("insertvalue", cmp, <<tmp>>, "insertvalue", NoName)),
                NewId(ir), before, after),
             NewId(ir))

\* dyn_cast<Instruction>
asInstruction(ir, v) == IF isInstruction(ir, v) THEN v ELSE Null

\* the switch on the integer's width (ir_modifier.cpp:144-150): the float of
\* that width, Null in the default case
floatOfWidth(w) == IF w \in {16, 32, 64, 80} THEN FloatTy(w) ELSE Null

RECURSIVE convertToType(_, _, _, _, _, _)

\* integer to floating point (ir_modifier.cpp:117-132)
convertIntToFloat(ir, val, type, before, after, constExpr) ==
    LET toInt == IntTy(getPrimitiveSizeInBits(type))
        szConv == convertToType(ir, val, toInt, before, after, constExpr)
        a == IF val = szConv.ret THEN after ELSE szConv.ret
    IN  createCast(szConv.ir, "bitcast", szConv.ret, type, before, a, constExpr)

\* pointer to floating point (ir_modifier.cpp:133-139)
convertPtrToFloat(ir, val, type, before, after, constExpr) ==
    LET toInt == IntTy(getPrimitiveSizeInBits(type))
        intConv == convertToType(ir, val, toInt, before, after, constExpr)
        a == asInstruction(intConv.ir, intConv.ret)
    IN  convertToType(intConv.ir, intConv.ret, type, before, a, constExpr)

\* the default case without its second step: the i32 is returned as it is
convertFloatToIntDefaultOneStep(ir, val, type, before, after, constExpr) ==
    convertToType(ir, val, I32, before, after, constExpr)

\* floating point to an integer of a width no float has (ir_modifier.cpp:150-161)
convertFloatToIntDefault(ir, val, type, before, after, constExpr) ==
    LET fpConv == convertToType(ir, val, I32, before, after, constExpr)
        a == asInstruction(fpConv.ir, fpConv.ret)
    IN  convertToType(fpConv.ir, fpConv.ret, type, before, a, constExpr)

\* floating point to integer (ir_modifier.cpp:140-182)
convertFloatToInt(ir, val, type, before, after, constExpr) ==
    LET ft == floatOfWidth(getPrimitiveSizeInBits(type)) IN
    IF ft = Null
    THEN convertFloatToIntDefault(ir, val, type, before, after, constExpr)
    ELSE IF ir.vals[val].type # ft
    THEN LET fpConv == convertToType(ir, val, ft, before, after, constExpr)
             a == asInstruction(fpConv.ir, fpConv.ret)
         IN  convertToType(fpConv.ir, fpConv.ret, type, before, a, constExpr)
    ELSE createCast(ir, "bitcast", val, type, before, after, constExpr)

\* floating point to pointer (ir_modifier.cpp:183-191)
convertFloatToPtr(ir, val, type, before, after, constExpr) ==
    LET toInt == IntTy(getPrimitiveSizeInBits(ir.vals[val].type))
        intConv == convertToType(ir, val, toInt, before, after, constExpr)
        a == asInstruction(intConv.ir, intConv.ret)
    IN  convertToType(intConv.ir, intConv.ret, type, before, a, constExpr)

\* a load of an aggregate, live mode (ir_modifier.cpp:211-223): a new load
\* through the pointer operand cast to type*; the old load is left alone
convertAggregateLoad(ir, val, type, before, after, constExpr) ==
    LET c == convertToType(ir, ir.vals[val].ops[1], PtrTo(type),
                           before, after, constExpr)
        nl == NewId(c.ir)
    IN  Ret(insertAfter(AddValue(c.ir, Value("load", type, <<c.ret>>, "", NoName)),
                        nl, c.ret),
            nl)

\* an aggregate value (ir_modifier.cpp:224-244)
convertFromAggregate(ir, val, type, before, after, constExpr) ==
    LET toSimple == createExtractValue(ir, val, before, after, constExpr)
        a == asInstruction(toSimple.ir, toSimple.ret)
    IN  convertToType(toSimple.ir, toSimple.ret, type, before, a, constExpr)

\* to a composite type (ir_modifier.cpp:245-271)
convertToComposite(ir, val, type, before, after, constExpr) ==
    LET idxt == getTypeAtIndex0(type)
        tmp == convertToType(ir, val, idxt, before, after, constExpr)
        a == IF val = tmp.ret THEN after ELSE tmp.ret
    IN  IF tmp.ret = Null
        THEN Ret(tmp.ir, Null)
        ELSE createInsertValue(tmp.ir, tmp.ret, type, before, a, constExpr)

convertToType(ir, val, type, before, after, constExpr) ==
    IF val = Null \/ type = Null \/ (~constExpr /\ before = Null /\ after = Null)
    THEN Ret(ir, Null)
    ELSE LET vt == ir.vals[val].type IN
    IF vt = type
    THEN Ret(ir, val)
    ELSE IF isPointerTy(vt) /\ isPointerTy(type)
    THEN createCast(ir, "bitcast", val, type, before, after, constExpr)
    ELSE IF isPointerTy(vt) /\ isIntegerTy(type)
    THEN createCast(ir, "ptrtoint", val, type, before, after, constExpr)
    ELSE IF isIntegerTy(vt) /\ isPointerTy(type)
    THEN createCast(ir, "inttoptr", val, type, before, after, constExpr)
    ELSE IF isIntegerTy(vt) /\ isIntegerTy(type)
    THEN createCast(ir, "intcast", val, type, before, after, constExpr)
    ELSE IF isIntegerTy(vt) /\ isFloatingPointTy(type)
    THEN convertIntToFloat(ir, val, type, before, after, constExpr)
    ELSE IF isPointerTy(vt) /\ isFloatingPointTy(type)
    THEN convertPtrToFloat(ir, val, type, before, after, constExpr)
    ELSE IF isFloatingPointTy(vt) /\ isIntegerTy(type)
    THEN convertFloatToInt(ir, val, type, before, after, constExpr)
    ELSE IF isFloatingPointTy(vt) /\ isPointerTy(type)
    THEN convertFloatToPtr(ir, val, type, before, after, constExpr)
    ELSE IF isFloatingPointTy(vt) /\ isFloatingPointTy(type)
    THEN createCast(ir, "fpcast", val, type, before, after, constExpr)
    ELSE IF ir.vals[val].kind = "load" /\ isAggregateType(vt) /\ ~constExpr
    THEN convertAggregateLoad(ir, val, type, before, after, constExpr)
    ELSE IF isAggregateType(vt)
    THEN convertFromAggregate(ir, val, type, before, after, constExpr)
    ELSE IF isCompositeType(type)
    THEN convertToComposite(ir, val, type, before, after, constExpr)
    ELSE Ret(ir, Null)

\* IrModifier::convertValueToType, convertValueToTypeAfter, convertConstantToType
convertValueToType(ir, val, type, before) ==
    convertToType(ir, val, type, before, Null, FALSE)
convertValueToTypeAfter(ir, val, type, after) ==
    convertToType(ir, val, type, Null, after, FALSE)
convertConstantToType(ir, val, type) ==
    convertToType(ir, val, type, Null, Null, TRUE)

-----------------------------------------------------------------------------
(* The state as one record, and the step that installs a new one.          *)

Cur == [vals |-> vals, body |-> body, module |-> module, config |-> config,
        stack |-> stack, eraseSet |-> eraseSet]

Install(st) ==
    /\ vals' = st.vals
    /\ body' = st.body
    /\ module' = st.module
    /\ config' = st.config
    /\ stack' = st.stack
    /\ eraseSet' = st.eraseSet

\* the image: arm, whether the target is ARM, Thumb or PIC32, and for each
\* address of mem what the FileImage, the debug info and the crypto patterns
\* have there
NoImage == [arm |-> FALSE, mem |-> <<>>]

-----------------------------------------------------------------------------
(* Conversions of values: a function holding a value of each kind (an      *)
(* argument, a constant, a load) of a source type, and convert applied to  *)
(* them in each of the three modes.                                        *)

MaxConverts == 1

ConvTypes == {I24, I32, I64, F32, F64, PtrTo(I32), PtrTo(F64),
              StructTy(1), StructTy(2), StructTy(3), ArrTy(F32)}

\* 1: a pointer argument, 2: an argument, 3: a constant, 4: a load through 1,
\* 5: an instruction using 2 and 4
ConvVals(S) == <<
    Value("arg", PtrTo(S), <<>>, "", NoName),
    Value("arg", S, <<>>, "", NoName),
    Value("const", S, <<>>, "", NoName),
    Value("load", S, <<1>>, "", NoName),
    Value("other", VoidTy, <<2, 4>>, "", NoName) >>

InitConvert ==
    /\ \E S \in ConvTypes : vals = ConvVals(S)
    /\ body = [f \in {1} |-> <<4, 5>>]
    /\ module = {}
    /\ config = {}
    /\ stack = {}
    /\ eraseSet = {}
    /\ image = NoImage
    /\ last = [op |-> "init", n |-> 0]

Convertible(v) ==
    /\ vals[v].type # VoidTy
    /\ present(Cur, v)

LastConvert(v, T, mode, r) ==
    [op |-> "convert", n |-> last.n + 1, val |-> v, type |-> T, mode |-> mode,
     ret |-> r.ret, pre |-> Cur]

\* convertValueToType(v, T, before)
ConvertBefore ==
    \E v \in DOMAIN vals, T \in ConvTypes, b \in DOMAIN vals :
        /\ last.n < MaxConverts
        /\ Convertible(v)
        /\ isInstruction(Cur, b) /\ inBlock(Cur, b)
        /\ LET r == convertValueToType(Cur, v, T, b) IN
            /\ Install(r.ir)
            /\ last' = LastConvert(v, T, "before", r)
        /\ UNCHANGED image

\* convertValueToTypeAfter(v, T, after)
ConvertAfter ==
    \E v \in DOMAIN vals, T \in ConvTypes, a \in DOMAIN vals :
        /\ last.n < MaxConverts
        /\ Convertible(v)
        /\ isInstruction(Cur, a) /\ inBlock(Cur, a)
        /\ LET r == convertValueToTypeAfter(Cur, v, T, a) IN
            /\ Install(r.ir)
            /\ last' = LastConvert(v, T, "after", r)
        /\ UNCHANGED image

\* convertConstantToType(c, T)
ConvertConstant ==
    \E v \in DOMAIN vals, T \in ConvTypes :
        /\ last.n < MaxConverts
        /\ Convertible(v)
        /\ isConstant(Cur, v)
        /\ LET r == convertConstantToType(Cur, v, T) IN
            /\ Install(r.ir)
            /\ last' = LastConvert(v, T, "const", r)
        /\ UNCHANGED image

NextConvert == ConvertBefore \/ ConvertAfter \/ ConvertConstant

SpecConvert == InitConvert /\ [][NextConvert]_vars

\* the kinds of type the decision table has a rule for
HasRule(t) == Kind(t) \in {KPtr, KInt, KFloat, KStruct, KArray}

\* C1: for a source and a target type the decision table has a rule for,
\* convert returns a value whose type is exactly the target type, in each of
\* the three modes; when the value already has the target type it is returned
\* itself and no instruction or constant is created.
ConvertReturnsTargetType ==
    (last.op = "convert"
        /\ HasRule(last.pre.vals[last.val].type) /\ HasRule(last.type))
    => /\ last.ret # Null
       /\ vals[last.ret].type = last.type
       /\ (last.pre.vals[last.val].type = last.type
            => /\ last.ret = last.val
               /\ vals = last.pre.vals
               /\ body = last.pre.body)

\* a float converted, after an instruction, to an integer of a width no float
\* has: the two-step path through i32
ConvertWitness ==
    /\ last.op = "convert"
    /\ last.mode = "after"
    /\ last.pre.vals[last.val].type = F64
    /\ last.type = I24
    /\ last.ret # last.val
    /\ Len(vals) = Len(last.pre.vals) + 3

-----------------------------------------------------------------------------
(* Config and FileImage, as far as the object mutator uses them.  A config *)
(* global is [name, addr, type, wide]; an IR global and its config object  *)
(* are tied by the name, which takeName moves to a re-created global.      *)

NoAddr == 0

\* Config::getConfigGlobalVariable(gv): the config objects of gv
configOf(st, gv) == {c \in st.config : c.name = st.vals[gv].name}
\* Config::getGlobalAddress(gv)
getGlobalAddress(st, gv) ==
    IF configOf(st, gv) = {} THEN NoAddr ELSE (CHOOSE c \in configOf(st, gv) : TRUE).addr

\* FileImage::getConstant(type, addr, wideString): a constant of the type asked
\* for, when the bytes at addr can be read as one
getConstantOfType(st, type, addr) ==
    IF addr # NoAddr /\ addr \in DOMAIN image.mem /\ image.mem[addr].typed
    THEN Ret(AddValue(st, Value("const", type, <<>>, "", NoName)), NewId(st))
    ELSE Ret(st, Null)

\* modifyFunctionArgumentType: the argument of the rebuilt signature
modifyFunctionArgumentType(st, arg, toType) ==
    Ret(AddValue(st, Value("arg", toType, <<>>, "", st.vals[arg].name)), NewId(st))

\* Value::takeName
takeName(st, to, from) ==
    [st EXCEPT !.vals[to].name = st.vals[from].name, !.vals[from].name = NoName]

-----------------------------------------------------------------------------
(* changeObjectDeclarationType (ir_modifier.cpp:630-694)                   *)

\* an alloca: a new alloca of toType before the old one, with its name
redeclareAlloca(st, alloca, toType) ==
    LET ret == NewId(st)
        s1 == insertBefore(
                AddValue(st, Value("alloca", PtrTo(toType), <<>>, "", st.vals[alloca].name)),
                ret, alloca)
    IN  Ret(takeName(s1, ret, alloca), ret)

\* the type of the new global: the initializer's when there is one
redeclaredGlobalType(st, init, toType) ==
    IF init # Null THEN st.vals[init].type ELSE toType

\* a global: a new global with the initializer given or read from the image;
\* the config object found under its name gets the new type
redeclareGlobal(st, old, toType, init, wideString) ==
    LET rd == IF init = Null
              THEN getConstantOfType(st, toType, getGlobalAddress(st, old))
              ELSE Ret(st, init)
        ogv == NewId(rd.ir)
        t == redeclaredGlobalType(rd.ir, rd.ret, toType)
        s1 == AddValue(rd.ir,
                Value("global", PtrTo(t),
                      IF rd.ret = Null THEN <<>> ELSE <<rd.ret>>,
                      "", st.vals[old].name))
        s2 == takeName([s1 EXCEPT !.module = @ \cup {ogv}], ogv, old)
        ecgv == configOf(s2, ogv)
        s3 == IF ecgv = {}
              THEN s2
              ELSE [s2 EXCEPT !.config = (@ \ ecgv) \cup
                        {[name |-> c.name, addr |-> c.addr,
                          type |-> getElementType(s2.vals[ogv].type),
                          wide |-> wideString] : c \in ecgv}]
    IN  Ret(s3, ogv)

changeObjectDeclarationType(st, val, toType, init, wideString) ==
    IF st.vals[val].type = toType
    THEN Ret(st, val)
    ELSE CASE st.vals[val].kind = "alloca" -> redeclareAlloca(st, val, toType)
           [] st.vals[val].kind = "global" ->
                redeclareGlobal(st, val, toType, init, wideString)
           [] st.vals[val].kind = "arg" -> modifyFunctionArgumentType(st, val, toType)
           [] OTHER -> Ret(st, val)

-----------------------------------------------------------------------------
(* IrModifier::changeObjectType (ir_modifier.cpp:718-884)                  *)

\* the users of val copied to a list (ir_modifier.cpp:758-762), one entry per
\* use; a use list starts with the use made last
RECURSIVE usesInOrder(_)
usesInOrder(S) ==
    IF S = {} THEN <<>>
    ELSE LET m == CHOOSE x \in S : \A y \in S :
                    y[1] < x[1] \/ (y[1] = x[1] /\ y[2] <= x[2])
         IN  <<m[1]>> \o usesInOrder(S \ {m})
usersOf(st, val) == usesInOrder(Uses(st, val))

\* the obsolete instruction erased at once, whatever the caller gave
eraseAtOnce(st, i, instToErase) == eraseFromParent(st, i)

\* an obsolete instruction: into instToErase when the caller gave one, else
\* erased from its block
eraseOrDefer(st, i, instToErase) ==
    IF instToErase
    THEN [st EXCEPT !.eraseSet = @ \cup {i}]
    ELSE eraseFromParent(st, i)

\* a store whose pointer operand is left as it was
retypeStoreValueOnly(st, store, val, nval, origType) ==
    LET src == st.vals[store].ops[1]
        dst == st.vals[store].ops[2]
        conv == IF val = dst
                THEN convertValueToType(st, src, getElementType(st.vals[nval].type), store)
                ELSE convertValueToType(st, nval, origType, store)
    IN  setOperand(conv.ir, store, 0, conv.ret)

\* a store (ir_modifier.cpp:769-787)
retypeStore(st, store, val, nval, origType) ==
    LET src == st.vals[store].ops[1]
        dst == st.vals[store].ops[2]
    IN  IF val = dst
        THEN LET conv == convertValueToType(st, src,
                            getElementType(st.vals[nval].type), store)
             IN  setOperand(setOperand(conv.ir, store, 0, conv.ret), store, 1, nval)
        ELSE LET conv == convertValueToType(st, nval, origType, store)
             IN  setOperand(conv.ir, store, 0, conv.ret)

\* a load (ir_modifier.cpp:788-812)
retypeLoad(st, load, val, nval, instToErase) ==
    LET newLoad == NewId(st)
        s1 == insertBefore(
                AddValue(st, Value("load", getElementType(st.vals[nval].type),
                                   <<nval>>, "", NoName)),
                newLoad, load)
        conv == convertValueToType(s1, newLoad, st.vals[load].type, load)
    IN  IF conv.ret # load
        THEN eraseOrDefer(replaceAllUsesWith(conv.ir, load, conv.ret), load, instToErase)
        ELSE conv.ir

\* a cast (ir_modifier.cpp:813-846)
retypeCast(st, cast, val, nval, instToErase) ==
    IF st.vals[nval].type = st.vals[cast].type
    THEN IF val # cast
         THEN eraseOrDefer(replaceAllUsesWith(st, cast, nval), cast, instToErase)
         ELSE st
    ELSE LET conv == convertValueToType(st, nval, st.vals[cast].type, cast)
         IN  IF cast # conv.ret
             THEN eraseOrDefer(replaceAllUsesWith(conv.ir, cast, conv.ret),
                               cast, instToErase)
             ELSE conv.ir

\* the operand patched with the new object itself, not converted back
retypeInstructionNoConversion(st, instr, val, nval, origType) ==
    replaceUsesOfWith(st, instr, val, nval)

\* any other instruction (ir_modifier.cpp:848-855)
retypeInstruction(st, instr, val, nval, origType) ==
    LET conv == convertValueToType(st, nval, origType, instr)
    IN  IF val # conv.ret
        THEN replaceUsesOfWith(conv.ir, instr, val, conv.ret)
        ELSE conv.ir

\* the new global put in as it is, with no conversion
retypeInitializerDirect(st, gvDeclr, val, newConst) ==
    replaceUsesOfWith(st, gvDeclr, val, newConst)

\* a global whose initializer is val (ir_modifier.cpp:856-865)
retypeInitializer(st, gvDeclr, val, newConst) ==
    LET conv == convertConstantToType(st, newConst,
                    getElementType(st.vals[gvDeclr].type))
    IN  IF gvDeclr # conv.ret
        THEN replaceUsesOfWith(conv.ir, gvDeclr, val, conv.ret)
        ELSE conv.ir

\* another constant (ir_modifier.cpp:868-875)
retypeConstant(st, c, newConst) ==
    LET conv == convertConstantToType(st, newConst, st.vals[c].type)
    IN  IF c # conv.ret
        THEN replaceAllUsesWith(conv.ir, c, conv.ret)
        ELSE conv.ir

\* one user (ir_modifier.cpp:764-881)
retypeUser(st, user, val, nval, origType, instToErase) ==
    LET k == st.vals[user].kind
        newConst == IF isConstant(st, nval) THEN nval ELSE Null
    IN  CASE k = "store" -> retypeStore(st, user, val, nval, origType)
          [] k = "load" -> retypeLoad(st, user, val, nval, instToErase)
          [] k = "cast" -> retypeCast(st, user, val, nval, instToErase)
          [] k \in InstrKinds \ {"store", "load", "cast"} ->
                retypeInstruction(st, user, val, nval, origType)
          [] k = "global" /\ newConst # Null ->
                retypeInitializer(st, user, val, newConst)
          [] k \in {"const", "cexpr"} /\ newConst # Null ->
                retypeConstant(st, user, newConst)
          [] OTHER -> st

RECURSIVE retypeUsers(_, _, _, _, _, _)
retypeUsers(st, users, val, nval, origType, instToErase) ==
    IF users = <<>>
    THEN st
    ELSE retypeUsers(
            retypeUser(st, Head(users), val, nval, origType, instToErase),
            Tail(users), val, nval, origType, instToErase)

changeObjectType(st, val, toType, init, instToErase, wideString) ==
    IF st.vals[val].kind \notin {"alloca", "global", "arg"}
    THEN Ret(st, val)
    ELSE IF st.vals[val].type = toType
    THEN Ret(st, val)
    ELSE LET origType == st.vals[val].type
             nval == changeObjectDeclarationType(st, val, toType, init, wideString)
             users == usersOf(nval.ir, val)
         IN  Ret(retypeUsers(nval.ir, users, val, nval.ret, origType, instToErase),
                 nval.ret)

-----------------------------------------------------------------------------
(* Objects and their users: a function (or module) holding one object, an  *)
(* alloca, a global or an argument, with users of every kind the rewrite   *)
(* tells apart, and changeObjectType applied to it and to its result.      *)

MaxChanges == 1

ObjName == <<"obj", 1>>
ObjAddr == 1

\* the object, value 1, whose elements have type X
Object(kind, X) ==
    CASE kind = "alloca" -> Value("alloca", PtrTo(X), <<>>, "", ObjName)
      [] kind = "global" -> Value("global", PtrTo(X), <<2>>, "", ObjName)
      [] kind = "arg" -> Value("arg", PtrTo(X), <<>>, "", ObjName)

\* 2: a constant of type X, 3: a pointer argument to store the object through
Fixed(kind, X) == <<
    Object(kind, X),
    Value("const", X, <<>>, "", NoName),
    Value("arg", PtrTo(PtrTo(X)), <<>>, "", NoName) >>

\* memory accesses: a load, a store through the object, a store of the object,
\* and an instruction using the load and the object
UsersMemory(X) == <<
    Value("load", X, <<1>>, "", NoName),
    Value("store", VoidTy, <<2, 1>>, "", NoName),
    Value("store", VoidTy, <<1, 3>>, "", NoName),
    Value("other", VoidTy, <<4, 1>>, "", NoName) >>

\* casts: a ptrtoint and a bitcast of the object, an instruction using both,
\* and an instruction using the object twice
UsersCasts(X) == <<
    Value("cast", I32, <<1>>, "ptrtoint", NoName),
    Value("cast", PtrTo(F64), <<1>>, "bitcast", NoName),
    Value("other", VoidTy, <<4, 5>>, "", NoName),
    Value("other", VoidTy, <<1, 1>>, "", NoName) >>

\* a copy: the object's value loaded and stored back through the object
UsersCopy(X) == <<
    Value("load", X, <<1>>, "", NoName),
    Value("store", VoidTy, <<4, 1>>, "", NoName),
    Value("other", VoidTy, <<4>>, "", NoName) >>

\* constants (of a global): a global initialized with the object, a constant
\* expression of it used by an instruction and by a global's initializer
UsersConstants(X) == <<
    Value("global", PtrTo(PtrTo(X)), <<1>>, "", <<"ref", 0>>),
    Value("cexpr", I32, <<1>>, "ptrtoint", NoName),
    Value("other", VoidTy, <<5>>, "", NoName),
    Value("global", PtrTo(I32), <<5>>, "", <<"int", 0>>) >>

Users(sc, X) ==
    CASE sc = "memory" -> UsersMemory(X)
      [] sc = "casts" -> UsersCasts(X)
      [] sc = "copy" -> UsersCopy(X)
      [] sc = "constants" -> UsersConstants(X)

ObjElemTypes == {I32, StructTy(1)}
ObjTypes == {I32, F64, PtrTo(I32), PtrTo(F64), StructTy(1)}

ImageOf(a, typed) ==
    [arm |-> FALSE,
     mem |-> [x \in {a} |->
        [data |-> TRUE, code |-> FALSE, str |-> FALSE, word |-> NoAddr,
         dbg |-> Null, crypto |-> Null, typed |-> typed, init |-> "word"]]]

InitObject ==
    \E kind \in {"alloca", "global", "arg"}, X \in ObjElemTypes,
       sc \in {"memory", "casts", "copy", "constants"}, typed \in BOOLEAN :
        /\ sc = "constants" => kind = "global"
        /\ kind # "global" => typed
        /\ vals = Fixed(kind, X) \o Users(sc, X)
        /\ LET instrs == SelectSeq([i \in 1..Len(vals) |-> i],
                            LAMBDA i : vals[i].kind \in InstrKinds)
           IN  body = [f \in {1} |-> instrs]
        /\ module = {i \in 1..Len(vals) : vals[i].kind = "global"}
        /\ config = IF kind = "global"
                    THEN {[name |-> ObjName, addr |-> ObjAddr, type |-> X, wide |-> FALSE]}
                    ELSE {}
        /\ stack = {}
        /\ eraseSet = {}
        /\ image = ImageOf(ObjAddr, typed)
        /\ last = [op |-> "init", n |-> 0, ret |-> 1]

\* the calls changeObjectType is made for: an object that is in the IR, a type
\* a slot can hold, and a pointer type where the object is loaded or stored
\* through (ir_modifier.cpp:776-777, 792)
usedAsPointer(st, v) ==
    \E u \in DOMAIN st.vals :
        /\ present(st, u)
        /\ \/ st.vals[u].kind = "load" /\ st.vals[u].ops[1] = v
           \/ st.vals[u].kind = "store" /\ st.vals[u].ops[2] = v
Accepts(st, v, T) ==
    /\ st.vals[v].kind \in {"alloca", "global", "arg"}
    /\ present(st, v)
    /\ st.vals[v].kind = "arg" /\ usedAsPointer(st, v) => isPointerTy(T)

\* the initializer the caller passes: none, a constant of type T, a constant
\* of another type, or the object itself
InitKinds == {"none", "same", "other", "self"}
OtherInitType(T) == IF T = I32 THEN F64 ELSE I32
WithInit(st, v, T, ik) ==
    CASE ik = "none" -> Ret(st, Null)
      [] ik = "same" -> Ret(AddValue(st, Value("const", T, <<>>, "", NoName)), NewId(st))
      [] ik = "other" ->
            Ret(AddValue(st, Value("const", OtherInitType(T), <<>>, "", NoName)), NewId(st))
      [] ik = "self" -> Ret(st, v)

LastChange(v, T, init, erase, r, pre) ==
    [op |-> "change", n |-> last.n + 1, val |-> v, type |-> T, init |-> init,
     erase |-> erase, ret |-> r.ret, pre |-> pre]

ChangeCall(v, T, ik, erase, wide) ==
    /\ last.n < MaxChanges
    /\ Accepts(Cur, v, T)
    /\ ik # "none" => vals[v].kind = "global"
    /\ LET i == WithInit(Cur, v, T, ik)
           r == changeObjectType(i.ir, v, T, i.ret, erase, wide)
       IN  /\ Install(r.ir)
           /\ last' = LastChange(v, T, i.ret, erase, r, i.ir)
    /\ UNCHANGED image

\* changeObjectType(objf, val, toType, init, nullptr): obsolete instructions
\* are erased
ChangeObjectTypeErasing ==
    \E v \in {1, last.ret}, T \in ObjTypes, ik \in InitKinds, wide \in BOOLEAN :
        /\ wide => vals[v].kind = "global" /\ ik = "none"
        /\ ChangeCall(v, T, ik, FALSE, wide)

\* changeObjectType(objf, val, toType, init, &instToErase)
ChangeObjectTypeDeferring ==
    \E v \in {1, last.ret}, T \in ObjTypes, ik \in InitKinds, wide \in BOOLEAN :
        /\ wide => vals[v].kind = "global" /\ ik = "none"
        /\ ChangeCall(v, T, ik, TRUE, wide)

NextObject == ChangeObjectTypeErasing \/ ChangeObjectTypeDeferring

SpecObject == InitObject /\ [][NextObject]_vars

-----------------------------------------------------------------------------
(* What the claims about changeObjectType speak of.                        *)

Changed == last.op = "change"
TypeOf(st, v) == st.vals[v].type
\* the users the object had when the call was made
UsersBefore == {u[1] : u \in Uses(last.pre, last.val)}
\* the values the call created
Created == (DOMAIN vals) \ (DOMAIN last.pre.vals)

\* the type rule of the instruction or constant u
WellTyped(st, u) ==
    LET k == st.vals[u].kind
        t == st.vals[u].type
        o == st.vals[u].ops
        c == st.vals[u].op
        s == TypeOf(st, o[1])
    IN  CASE k = "load" -> isPointerTy(s) /\ t = getElementType(s)
          [] k = "store" ->
                /\ isPointerTy(TypeOf(st, o[2]))
                /\ s = getElementType(TypeOf(st, o[2]))
          [] k = "alloca" -> isPointerTy(t)
          [] k = "global" -> isPointerTy(t) /\ (o # <<>> => s = getElementType(t))
          [] k \in {"cast", "cexpr", "extractvalue", "insertvalue"} ->
                (CASE c = "bitcast" ->
                        \/ isPointerTy(s) /\ isPointerTy(t)
                        \/ /\ Kind(s) \in {KInt, KFloat}
                           /\ Kind(t) \in {KInt, KFloat}
                           /\ getPrimitiveSizeInBits(s) = getPrimitiveSizeInBits(t)
                   [] c = "ptrtoint" -> isPointerTy(s) /\ isIntegerTy(t)
                   [] c = "inttoptr" -> isIntegerTy(s) /\ isPointerTy(t)
                   [] c = "intcast" -> isIntegerTy(s) /\ isIntegerTy(t)
                   [] c = "fpcast" -> isFloatingPointTy(s) /\ isFloatingPointTy(t)
                   [] c = "extractvalue" -> isAggregateType(s) /\ t = getTypeAtIndex0(s)
                   [] c = "insertvalue" -> isAggregateType(t) /\ s = getTypeAtIndex0(t))
          [] OTHER -> TRUE

\* C2: after changeObjectType every user the object had type-checks: a store
\* through the new object stores a value of its element type, a store of the
\* object stores a value of the object's original type, whatever stands for a
\* replaced load, cast or constant has the type of what it replaced, every
\* other instruction has an operand of the original type where the object
\* was, and every instruction or constant the call created is well typed.
ChangeKeepsUsersTyped ==
    Changed =>
    LET pre == last.pre
        v == last.val
        orig == TypeOf(pre, v)
    IN  /\ \A u \in UsersBefore :
            /\ pre.vals[u].kind = "store" /\ pre.vals[u].ops[2] = v =>
                /\ vals[u].ops[2] = last.ret
                /\ TypeOf(Cur, vals[u].ops[1]) = getElementType(TypeOf(Cur, last.ret))
            /\ pre.vals[u].kind = "store" /\ pre.vals[u].ops[1] = v =>
                TypeOf(Cur, vals[u].ops[1]) = orig
            /\ pre.vals[u].kind \in InstrKinds \ {"store", "load", "cast"} =>
                \A i \in DOMAIN pre.vals[u].ops :
                    pre.vals[u].ops[i] = v => TypeOf(Cur, vals[u].ops[i]) = orig
            /\ pre.vals[u].kind = "global" => WellTyped(Cur, u)
            /\ pre.vals[u].kind \in {"load", "cast", "cexpr"} =>
                \A w \in DOMAIN pre.vals : \A i \in DOMAIN pre.vals[w].ops :
                    (/\ pre.vals[w].ops[i] = u
                     /\ present(pre, w)
                     /\ ~(pre.vals[w].kind = "store" /\ pre.vals[w].ops[2] = v)) =>
                        TypeOf(Cur, vals[w].ops[i]) = pre.vals[u].type
        /\ \A n \in Created : WellTyped(Cur, n)

\* a load of the object was replaced and its user now uses a value converted
\* back from a load of another type
ChangeTypedWitness ==
    /\ Changed
    /\ last.ret # last.val
    /\ \E u \in UsersBefore, w \in DOMAIN last.pre.vals :
        /\ last.pre.vals[u].kind = "load"
        /\ last.pre.vals[w].kind = "other"
        /\ last.pre.vals[w].ops[1] = u
        /\ vals[w].ops[1] \in Created
        /\ vals[vals[w].ops[1]].kind # "load"

\* what is in the IR: an instruction of a block, a global of the module, and
\* a constant that one of these reaches through its operands
RECURSIVE reaches(_, _, _, _)
reaches(st, w, c, fuel) ==
    \E i \in DOMAIN st.vals[w].ops :
        \/ st.vals[w].ops[i] = c
        \/ /\ fuel > 0
           /\ st.vals[st.vals[w].ops[i]].kind = "cexpr"
           /\ reaches(st, st.vals[w].ops[i], c, fuel - 1)
InIR(st, u) ==
    CASE st.vals[u].kind \in InstrKinds -> inBlock(st, u)
      [] st.vals[u].kind = "global" -> u \in st.module
      [] OTHER -> \E w \in DOMAIN st.vals :
                    /\ st.vals[w].kind \in InstrKinds \cup {"global"}
                    /\ present(st, w)
                    /\ reaches(st, w, u, Len(st.vals))
HasOperand(st, u, v) == \E i \in DOMAIN st.vals[u].ops : st.vals[u].ops[i] = v

\* C3 as stated: after changeObjectType returns a new object, nothing that is
\* in the IR has the old object as an operand, with or without an erase-set.
NoUserKeepsOldObject ==
    (Changed /\ last.ret # last.val) =>
        \A u \in DOMAIN vals : InIR(Cur, u) => ~HasOperand(Cur, u, last.val)

\* C3, amended: after changeObjectType returns a new object, no user the old
\* object had when the call was made, that is still in the IR and was not put
\* in the erase-set, has the old object as an operand.
NoKeptUserKeepsOldObject ==
    (Changed /\ last.ret # last.val) =>
        \A u \in UsersBefore :
            (InIR(Cur, u) /\ u \notin eraseSet) => ~HasOperand(Cur, u, last.val)

\* a store through the object, a store of the object and another instruction
\* were users and now use the new object or a conversion of it
NoKeptUserWitness ==
    /\ Changed
    /\ last.ret # last.val
    /\ \E u \in UsersBefore :
        last.pre.vals[u].kind = "store" /\ vals[u].ops[2] = last.ret
    /\ \E u \in UsersBefore :
        /\ last.pre.vals[u].kind = "store"
        /\ last.pre.vals[u].ops[1] = last.val
        /\ vals[u].ops[1] \in Created
    /\ \E u \in UsersBefore : last.pre.vals[u].kind = "other" /\ InIR(Cur, u)

\* the declared type of an object: what an alloca or a global holds, the type
\* of an argument
DeclaredType(st, v) ==
    IF st.vals[v].kind = "arg" THEN st.vals[v].type
    ELSE getElementType(st.vals[v].type)

\* C4 as stated: after changeObjectType(v, T, init) returns v', the declared
\* type of v' is T, for an alloca, a global (initializer supplied, read from
\* the image, or not readable) and an argument.
DeclaredTypeIsTarget ==
    Changed => DeclaredType(Cur, last.ret) = last.type

\* C5 as stated: changeObjectType on an object whose declared type already is
\* T returns the object itself and changes nothing.
SameTypeChangesNothing ==
    (Changed /\ DeclaredType(last.pre, last.val) = last.type) =>
        /\ last.ret = last.val
        /\ Cur = last.pre

\* the loads and casts of the object, which the rewrite makes obsolete
Obsolete ==
    IF last.ret = last.val THEN {}
    ELSE {u \in UsersBefore : last.pre.vals[u].kind \in {"load", "cast"}}

\* C6: each load or cast made obsolete is, with an erase-set, added to the set
\* and left in its block, and without one erased from its block; no other
\* instruction is erased and nothing else is added to the set.
ObsoleteErasedOrDeferred ==
    Changed =>
        /\ last.erase =>
            /\ eraseSet = last.pre.eraseSet \cup Obsolete
            /\ \A o \in Obsolete : inBlock(Cur, o)
        /\ ~last.erase =>
            /\ eraseSet = last.pre.eraseSet
            /\ \A o \in Obsolete : ~inBlock(Cur, o)
        /\ \A i \in DOMAIN last.pre.vals :
            (inBlock(last.pre, i) /\ i \notin Obsolete) => inBlock(Cur, i)

\* a call with an erase-set that deferred a load, and the load is still in
\* its block
DeferredWitness ==
    /\ Changed
    /\ last.erase
    /\ \E o \in Obsolete :
        /\ last.pre.vals[o].kind = "load"
        /\ o \in eraseSet
        /\ inBlock(Cur, o)

-----------------------------------------------------------------------------
(* IrModifier::getStackVariable (ir_modifier.cpp:337-367).  A config stack *)
(* variable is [fn, off, alloca].                                          *)

\* Config::getLlvmStackVariable(fnc, offset)
getLlvmStackVariable(st, fnc, offset) ==
    LET found == {c \in st.stack : c.fn = fnc /\ c.off = offset}
    IN  IF found = {} THEN Null ELSE (CHOOSE c \in found : TRUE).alloca

\* Config::getConfigStackVariable(alloca)
getConfigStackVariable(st, alloca) ==
    CHOOSE c \in st.stack : c.alloca = alloca

\* Config::insertStackVariable(alloca, offset)
insertStackVariable(st, alloca, offset) ==
    [st EXCEPT !.stack = @ \cup
        {[fn |-> getFunction(st, alloca), off |-> offset, alloca |-> alloca]}]

\* the alloca created and registered (ir_modifier.cpp:358-366)
createStackVariable(st, fnc, offset, type, n) ==
    LET ret == NewId(st)
        s1 == insertBefore(
                AddValue(st, Value("alloca", PtrTo(type), <<>>, "", n)),
                ret, Head(st.body[fnc]))
        s2 == insertStackVariable(s1, ret, offset)
    IN  [ir |-> s2, ret |-> ret, csv |-> getConfigStackVariable(s2, ret)]

\* without the lookup: a new alloca on every call
getStackVariableAlwaysNew(st, fnc, offset, type, name) ==
    createStackVariable(st, fnc, offset, type, <<name, offset>>)

getStackVariable(st, fnc, offset, type, name) ==
    LET t == IF ~isValidElementType(type) THEN DefaultType ELSE type
        n == <<IF name = "" THEN "stack_var" ELSE name, offset>>
        ret == getLlvmStackVariable(st, fnc, offset)
    IN  IF ret # Null
        THEN [ir |-> st, ret |-> ret, csv |-> getConfigStackVariable(st, ret)]
        ELSE createStackVariable(st, fnc, offset, t, n)

-----------------------------------------------------------------------------
(* Stack slots: two functions with a body, and getStackVariable called for *)
(* offsets of them with any type and name.                                 *)

StackKeys == {<<1, -16>>, <<1, 8>>, <<2, -16>>}
StackTypes == {I32, F64, VoidTy}
StackNames == {"", "x"}

InitStack ==
    /\ vals = << Value("other", VoidTy, <<>>, "", NoName),
                 Value("other", VoidTy, <<>>, "", NoName) >>
    /\ body = [f \in {1, 2} |-> <<f>>]
    /\ module = {}
    /\ config = {}
    /\ stack = {}
    /\ eraseSet = {}
    /\ image = NoImage
    /\ last = [op |-> "init"]

GetStackVariable ==
    \E k \in StackKeys, T \in StackTypes, name \in StackNames :
        LET r == getStackVariable(Cur, k[1], k[2], T, name) IN
        /\ Install(r.ir)
        /\ last' = [op |-> "stack", fn |-> k[1], off |-> k[2], type |-> T,
                    name |-> name, ret |-> r.ret, csv |-> r.csv, pre |-> Cur]
        /\ UNCHANGED image

NextStack == GetStackVariable

SpecStack == InitStack /\ [][NextStack]_vars

\* the allocas of function f that are registered for offset off
SlotsOf(f, off) ==
    {i \in DOMAIN vals :
        /\ vals[i].kind = "alloca"
        /\ InSeq(body[f], i)
        /\ vals[i].name[2] = off}

\* C7: for every function and offset at most one alloca is ever created and
\* registered; a call for a pair that has a slot returns that alloca and its
\* config entry, inserts nothing, and leaves the slot's type and name alone; a
\* call for a pair without one creates the slot and registers it.
StackSlotCreatedOnce ==
    /\ \A f \in DOMAIN body : \A off \in {k[2] : k \in StackKeys} :
        /\ Cardinality(SlotsOf(f, off)) <= 1
        /\ Cardinality({c \in stack : c.fn = f /\ c.off = off}) <= 1
    /\ \A c \in stack : c.alloca \in SlotsOf(c.fn, c.off)
    /\ last.op = "stack" =>
        LET before == {c \in last.pre.stack : c.fn = last.fn /\ c.off = last.off}
        IN  /\ last.csv = [fn |-> last.fn, off |-> last.off, alloca |-> last.ret]
            /\ last.csv \in stack
            /\ before # {} =>
                /\ last.csv \in before
                /\ vals = last.pre.vals
                /\ body = last.pre.body
                /\ stack = last.pre.stack
            /\ before = {} =>
                /\ last.ret \notin DOMAIN last.pre.vals
                /\ Len(vals) = Len(last.pre.vals) + 1

\* a second call for a pair, with another type and another name, returned the
\* slot of the first
StackSlotWitness ==
    /\ last.op = "stack"
    /\ last.ret \in DOMAIN last.pre.vals
    /\ vals[last.ret].type # PtrTo(last.type)
    /\ last.type # VoidTy
    /\ vals[last.ret].name[1] # last.name
    /\ last.name # ""
    /\ Cardinality(stack) = 3

-----------------------------------------------------------------------------
(* detectGlobalVariableInitializerCycle, globalVariableCanBeCreated and    *)
(* IrModifier::getGlobalVariable (ir_modifier.cpp:376-615)                 *)

hasDataOnAddress(a) == a \in DOMAIN image.mem /\ image.mem[a].data
\* Image::getWord(a, val): whether a word can be read at a, and the word
canGetWord(a) == a \in DOMAIN image.mem /\ image.mem[a].word # NoAddr
getWord(a) == image.mem[a].word
\* Image::getBytesPerWord, in the unit addresses are counted in
BytesPerWord == 1

globalVariableCanBeCreated(st, addr, strict) ==
    IF addr = NoAddr
    THEN FALSE
    ELSE IF ~hasDataOnAddress(addr)
    THEN FALSE
    ELSE IF image.mem[addr].code /\ ~image.mem[addr].str
    THEN IF \E a \in {addr, addr + BytesPerWord, addr - BytesPerWord} :
                canGetWord(a) /\ hasDataOnAddress(getWord(a))
         THEN TRUE
         ELSE image.arm /\ ~strict
    ELSE TRUE

\* the chain 'the initializer of a global is itself a global' followed from
\* cgv (ir_modifier.cpp:392-408): "hit" when it reaches gv, "end" when it
\* leaves the globals, "loop" when it comes back to a global already passed
RECURSIVE initializerChain(_, _, _, _)
initializerChain(st, gv, cgv, passed) ==
    IF ~isGlobalVariable(st, cgv) THEN "end"
    ELSE IF cgv = gv THEN "hit"
    ELSE IF cgv \in passed THEN "loop"
    ELSE IF st.vals[cgv].ops # <<>>
    THEN initializerChain(st, gv, st.vals[cgv].ops[1], passed \cup {cgv})
    ELSE "end"

detectGlobalVariableInitializerCycle(st, gv, c, addr) ==
    IF gv = Null \/ c = Null \/ addr = NoAddr
    THEN Ret(st, Null)
    ELSE IF c = gv
    THEN getConstantOfType(st, DefaultType, addr)
    ELSE IF initializerChain(st, gv, c, {}) = "hit"
    THEN getConstantOfType(st, DefaultType, addr)
    ELSE Ret(st, c)

\* Config::getLlvmGlobalVariable(name, addr): the global of the module with
\* that name, else the one the config has at the address
getLlvmGlobalVariable(st, name, addr) ==
    LET byName == {g \in st.module : st.vals[g].name = name}
        byAddr == {g \in st.module :
                    \E c \in st.config : c.addr = addr /\ c.name = st.vals[g].name}
    IN  IF byName # {} THEN CHOOSE g \in byName : TRUE
        ELSE IF byAddr # {} THEN CHOOSE g \in byAddr : TRUE
        ELSE Null

\* Config::getConfigGlobalVariable(addr)
configAt(st, addr) == {c \in st.config : c.addr = addr}

\* Config::insertGlobalVariable(gv, addr, ...)
insertGlobalVariable(st, gv, addr) ==
    [st EXCEPT !.config = {c \in @ : c.name # st.vals[gv].name} \cup
        {[name |-> st.vals[gv].name, addr |-> addr,
          type |-> getElementType(st.vals[gv].type), wide |-> FALSE]}]

\* FileImage::getConstant(config, dbgf, addr): nothing, the word at addr, or,
\* when the word is the address of a global of the module or of the global
\* being built, that global
getConstantAt(st, gv, addr) ==
    LET m == image.mem[addr]
        at == {g \in st.module :
                \/ g = gv /\ m.word = addr
                \/ \E c \in st.config : c.addr = m.word /\ c.name = st.vals[g].name}
    IN  CASE m.init = "none" -> Ret(st, Null)
          [] m.init = "ptr" /\ at # {} -> Ret(st, CHOOSE g \in at : TRUE)
          [] OTHER ->
                Ret(AddValue(st, Value("const", DefaultType, <<>>, "", NoName)), NewId(st))

\* new GlobalVariable(*_module, type, isConstant, ExternalLinkage, c, name)
newGlobalVariable(st, type, c, name) ==
    Ret([AddValue(st, Value("global", PtrTo(type),
                            IF c = Null THEN <<>> ELSE <<c>>, "", name))
            EXCEPT !.module = @ \cup {NewId(st)}],
        NewId(st))

keepGlobal(st, gv) == st

\* GlobalVariable::eraseFromParent
eraseGlobal(st, gv) == [st EXCEPT !.module = @ \ {gv}]

\* type, initializer and name from the debug info, the config and the crypto
\* patterns (ir_modifier.cpp:520-565)
chooseType(st, addr, name) ==
    LET m == image.mem[addr]
        d0 == [ir |-> st, t |-> DefaultType, c |-> Null, name |-> name, dbg |-> FALSE]
        d1 == IF m.dbg # Null
              THEN LET r == getConstantOfType(d0.ir, m.dbg, addr)
                   IN  [ir |-> r.ir, t |-> m.dbg, c |-> r.ret,
                        name |-> <<"debug", addr>>, dbg |-> TRUE]
              ELSE d0
        cgv == configAt(st, addr)
        d2 == IF cgv # {}
              THEN LET e == CHOOSE x \in cgv : TRUE
                       r == getConstantOfType(d1.ir, e.type, addr)
                   IN  [ir |-> r.ir, t |-> e.type, c |-> r.ret,
                        name |-> e.name, dbg |-> TRUE]
              ELSE d1
    IN  IF m.crypto # Null /\ ~d2.dbg
        THEN LET r == getConstantOfType(d2.ir, m.crypto, addr)
             IN  [ir |-> r.ir, t |-> m.crypto, c |-> r.ret,
                  name |-> <<"crypto", addr>>, dbg |-> TRUE]
        ELSE d2

\* the initializer was not read with the type: read what is there, build a
\* second global of its type and replace the first (ir_modifier.cpp:575-605)
buildFromInitializer(st, gv, addr, name) ==
    LET c0 == getConstantAt(st, gv, addr)
        c == detectGlobalVariableInitializerCycle(c0.ir, gv, c0.ret, addr)
    IN  IF c.ret = Null
        THEN Ret(insertGlobalVariable(c.ir, gv, addr), Null)
        ELSE LET ngv == newGlobalVariable(c.ir, c.ir.vals[c.ret].type, c.ret, name)
                 conv == convertConstantToType(ngv.ir, ngv.ret, st.vals[gv].type)
                 s1 == IF conv.ret # ngv.ret
                       THEN replaceAllUsesWith(conv.ir, gv, conv.ret)
                       ELSE conv.ir
             IN  Ret(insertGlobalVariable(eraseGlobal(s1, gv), ngv.ret, addr), ngv.ret)

getGlobalVariable(st, addr, strict, hint) ==
    IF ~globalVariableCanBeCreated(st, addr, strict)
    THEN Ret(st, Null)
    ELSE LET name == <<hint, addr>>
             found == getLlvmGlobalVariable(st, name, addr)
         IN  IF found # Null
             THEN Ret(st, found)
             ELSE LET d == chooseType(st, addr, name)
                      gv == newGlobalVariable(d.ir, d.t, d.c, d.name)
                  IN  IF d.c = Null
                      THEN buildFromInitializer(gv.ir, gv.ret, addr, d.name)
                      ELSE Ret(insertGlobalVariable(gv.ir, gv.ret, addr), gv.ret)

-----------------------------------------------------------------------------
(* Globals made from the image and retyped                                 *)

MaxRetypes == 1
Addrs == {1, 2}
Hints == {"global_var", "x"}

\* what an address of the image can be: plain data, data whose initializer
\* cannot be read, data in a code segment, no data, a word that is a pointer
\* (to itself or to the other address), and data the debug info or a crypto
\* pattern gives a type, readable with that type or not
Profiles == {"plain", "unreadable", "code", "nodata", "self", "pointer",
             "debug", "debugWord", "crypto"}

\* the second address is there to be pointed to and to point back
NeighbourProfiles == {"plain", "pointer", "unreadable"}

Mem(p, a) ==
    [data |-> p # "nodata",
     code |-> p = "code",
     str |-> FALSE,
     word |-> CASE p = "self" -> a
                [] p = "pointer" -> 3 - a
                [] OTHER -> NoAddr,
     dbg |-> IF p \in {"debug", "debugWord"} THEN F64 ELSE Null,
     crypto |-> IF p = "crypto" THEN ArrTy(I32) ELSE Null,
     typed |-> p \in {"plain", "code", "self", "pointer", "debug", "crypto"},
     init |-> CASE p \in {"unreadable", "nodata"} -> "none"
                [] p \in {"self", "pointer"} -> "ptr"
                [] OTHER -> "word"]

InitGlobal ==
    /\ vals = <<>>
    /\ body = [f \in {1} |-> <<>>]
    /\ module = {}
    /\ config = {}
    /\ stack = {}
    /\ eraseSet = {}
    /\ \E arm \in BOOLEAN, p \in [Addrs -> Profiles] :
            /\ p[2] \in NeighbourProfiles
            /\ image = [arm |-> arm, mem |-> [a \in Addrs |-> Mem(p[a], a)]]
    /\ last = [op |-> "init", addr |-> NoAddr, ret |-> Null, n |-> 0,
               hist |-> [a \in Addrs |-> <<>>]]

\* getGlobalVariable(objf, dbgf, a, strict, hint)
GetGlobalVariable ==
    \E a \in Addrs, strict \in BOOLEAN, hint \in Hints :
        LET r == getGlobalVariable(Cur, a, strict, hint)
        IN  /\ Install(r.ir)
            /\ last' = [op |-> "get", addr |-> a, ret |-> r.ret, n |-> last.n,
                        pre |-> Cur, was |-> last.hist[a],
                        hist |-> [last.hist EXCEPT ![a] = <<r.ret>>]]
            /\ UNCHANGED image

\* changeObjectType(objf, g, T, init) on a global of the config, with no
\* initializer (it is read from the image), an initializer of type T, the
\* global itself or another global of the module as its initializer
RetypeGlobal ==
    \E g \in module, T \in {F64, PtrTo(I32)}, ik \in {"none", "same", "self", "peer"} :
        /\ last.n < MaxRetypes
        /\ configOf(Cur, g) # {}
        /\ ik = "peer" => module \ {g} # {}
        /\ LET s0 == IF ik = "peer"
                     THEN Ret(Cur, CHOOSE h \in module \ {g} : TRUE)
                     ELSE WithInit(Cur, g, T, ik)
               r == changeObjectType(s0.ir, g, T, s0.ret, FALSE, FALSE)
           IN  /\ Install(r.ir)
               /\ last' = [op |-> "retype", addr |-> getGlobalAddress(Cur, g),
                           ret |-> r.ret, n |-> last.n + 1, pre |-> Cur, ik |-> ik,
                           hist |-> [a \in Addrs |-> <<>>]]
        /\ UNCHANGED image

NextGlobal == GetGlobalVariable \/ RetypeGlobal
SpecGlobal == InitGlobal /\ [][NextGlobal]_vars

\* last.hist[a] is what the latest getGlobalVariable for a returned, <<>> when
\* there was none since the start or since the last changeObjectType;
\* last.was is that of the address of the last call, before the call
Got == last.op = "get"

\* C8 as stated: once a call of getGlobalVariable for an address has returned,
\* a later call for that address returns the same result, and when that
\* result is a global the later call creates nothing.
GetGlobalVariableIdempotent ==
    (Got /\ last.was # <<>>) =>
        /\ last.ret = last.was[1]
        /\ last.ret # Null => Cur = last.pre

nameOf(g) == vals[g].name

RECURSIVE initializerReaches(_, _, _)
initializerReaches(w, g, fuel) ==
    \E i \in DOMAIN vals[w].ops :
        \/ vals[w].ops[i] = g
        \/ /\ fuel > 0
           /\ vals[vals[w].ops[i]].kind \in {"cexpr", "global"}
           /\ initializerReaches(vals[w].ops[i], g, fuel - 1)

\* C10 as stated: after getGlobalVariable and after changeObjectType on a
\* global, no global of the module has an initializer that refers to that
\* global; and a global made for an address whose word points to that address
\* has the word as its initializer.
NoInitializerCycle ==
    /\ \A g \in module : ~initializerReaches(g, g, Len(vals))
    /\ (Got /\ last.ret # Null /\ last.ret \notin last.pre.module
            /\ image.mem[last.addr].init = "ptr"
            /\ image.mem[last.addr].word = last.addr) =>
        /\ Len(vals[last.ret].ops) = 1
        /\ vals[vals[last.ret].ops[1]].kind = "const"
        /\ vals[vals[last.ret].ops[1]].type = DefaultType

-----------------------------------------------------------------------------
(* IrModifier::localize and IrModifier::createAlloca                       *)
(* (ir_modifier.cpp:892-924)                                               *)

\* for (auto* u : uses) u->replaceUsesOfWith(ptr, local)
RECURSIVE patchUses(_, _, _, _)
patchUses(st, uses, ptr, local) ==
    IF uses = {}
    THEN st
    ELSE LET u == CHOOSE x \in uses : TRUE
         IN  patchUses(replaceUsesOfWith(st, u, ptr, local), uses \ {u}, ptr, local)

\* the store is left where it is
localizeKeepingStore(st, definition, uses) ==
    LET ptr == st.vals[definition].ops[2]
        f == getFunction(st, definition)
        local == NewId(st)
        s1 == insertBefore(
                AddValue(st, Value("alloca", st.vals[ptr].type, <<>>, "", NoName)),
                local, Head(st.body[f]))
        s2 == insertBefore(
                AddValue(s1, Value("store", VoidTy,
                                   <<st.vals[definition].ops[1], local>>, "", NoName)),
                NewId(s1), definition)
    IN  [ir |-> patchUses(s2, uses, ptr, local), ret |-> TRUE, local |-> local]

localize(st, definition, uses) ==
    LET ptr == st.vals[definition].ops[2]
        f == getFunction(st, definition)
        local == NewId(st)
        s1 == insertBefore(
                AddValue(st, Value("alloca", st.vals[ptr].type, <<>>, "", NoName)),
                local, Head(st.body[f]))
        s2 == insertBefore(
                AddValue(s1, Value("store", VoidTy,
                                   <<st.vals[definition].ops[1], local>>, "", NoName)),
                NewId(s1), definition)
        s3 == eraseFromParent(s2, definition)
    IN  [ir |-> patchUses(s3, uses, ptr, local), ret |-> TRUE, local |-> local]

\* the alloca is put at the end of the function
createAllocaAtEnd(st, fnc, ty, name) ==
    IF st.body[fnc] = <<>>
    THEN Ret(st, Null)
    ELSE Ret(insertAfter(AddValue(st, Value("alloca", PtrTo(ty), <<>>, "", name)),
                         NewId(st), st.body[fnc][Len(st.body[fnc])]),
             NewId(st))

createAlloca(st, fnc, ty, name) ==
    IF st.body[fnc] = <<>>
    THEN Ret(st, Null)
    ELSE Ret(insertBefore(AddValue(st, Value("alloca", PtrTo(ty), <<>>, "", name)),
                          NewId(st), Head(st.body[fnc])),
             NewId(st))

-----------------------------------------------------------------------------
(* Locals: stack slots, retyped allocas, localized stores and new allocas  *)
(* in functions whose allocas lead the entry block.  The blocks of a       *)
(* function are one sequence, each ended by its terminator.                *)

MaxLocalOps == 2

\* 1: a global standing for a local, 2: an argument, 3: an alloca,
\* 4: a store of 2 into 1, 5: a load of 1, 6: the terminator of the entry
\* block, 7: a load of 1, 8: a store of 5 into 3, 9: the return of function 1,
\* 10: the return of function 2.  Function 3 has no body.
LocalVals == <<
    Value("global", PtrTo(I32), <<>>, "", <<"g", 0>>),
    Value("arg", I32, <<>>, "", NoName),
    Value("alloca", PtrTo(I32), <<>>, "", <<"a", 0>>),
    Value("store", VoidTy, <<2, 1>>, "", NoName),
    Value("load", I32, <<1>>, "", NoName),
    Value("other", VoidTy, <<>>, "br", NoName),
    Value("load", I32, <<1>>, "", NoName),
    Value("store", VoidTy, <<5, 3>>, "", NoName),
    Value("other", VoidTy, <<7>>, "ret", NoName),
    Value("other", VoidTy, <<>>, "ret", NoName) >>

InitLocal ==
    /\ vals = LocalVals
    /\ body = [f \in {1, 2, 3} |->
                CASE f = 1 -> <<3, 4, 5, 6, 7, 8, 9>>
                  [] f = 2 -> <<10>>
                  [] f = 3 -> <<>>]
    /\ module = {1}
    /\ config = {}
    /\ stack = {}
    /\ eraseSet = {}
    /\ image = NoImage
    /\ last = [op |-> "init", n |-> 0, ret |-> Null, fn |-> 1]

LocalTypes == {I32, F64}

\* getStackVariable(fnc, offset, T, "") for a function with a body
LocalStackSlot ==
    \E f \in {1, 2}, off \in {-16, 8}, T \in LocalTypes :
        /\ last.n < MaxLocalOps
        /\ LET r == getStackVariable(Cur, f, off, T, "")
           IN  /\ Install(r.ir)
               /\ last' = [op |-> "stack", n |-> last.n + 1, ret |-> r.ret,
                           fn |-> f, pre |-> Cur]
        /\ UNCHANGED image

\* changeObjectType(objf, alloca, T, nullptr, instToErase) for an alloca that
\* is in its function
LocalRetype ==
    \E a \in DOMAIN vals, T \in {F64, PtrTo(I32)}, erase \in BOOLEAN :
        /\ last.n < MaxLocalOps
        /\ vals[a].kind = "alloca" /\ inBlock(Cur, a)
        /\ LET r == changeObjectType(Cur, a, T, Null, erase, FALSE)
           IN  /\ Install(r.ir)
               /\ last' = [op |-> "retype", n |-> last.n + 1, ret |-> r.ret,
                           fn |-> getFunction(Cur, a), pre |-> Cur]
        /\ UNCHANGED image

\* the instructions of the function of definition, other than definition,
\* that have its pointer operand as an operand
usesOfPointer(st, definition) ==
    {u \in DOMAIN st.vals :
        /\ u # definition
        /\ InSeq(st.body[getFunction(st, definition)], u)
        /\ \E i \in DOMAIN st.vals[u].ops :
                st.vals[u].ops[i] = st.vals[definition].ops[2]}

\* localize(definition, uses) for a store of the function and any set of
\* instructions of the function that use what it stores to
Localize ==
    \E d \in DOMAIN vals :
        /\ last.n < MaxLocalOps
        /\ vals[d].kind = "store" /\ inBlock(Cur, d)
        /\ \E uses \in SUBSET usesOfPointer(Cur, d) :
            LET r == localize(Cur, d, uses)
            IN  /\ Install(r.ir)
                /\ last' = [op |-> "localize", n |-> last.n + 1, ret |-> r.local,
                            fn |-> getFunction(Cur, d), pre |-> Cur,
                            def |-> d, uses |-> uses]
        /\ UNCHANGED image

\* createAlloca(fnc, T, name)
CreateAlloca ==
    \E f \in Fns, T \in LocalTypes :
        /\ last.n < MaxLocalOps
        /\ LET r == createAlloca(Cur, f, T, <<"l", 0>>)
           IN  /\ Install(r.ir)
               /\ last' = [op |-> "alloca", n |-> last.n + 1, ret |-> r.ret,
                           fn |-> f, pre |-> Cur]
        /\ UNCHANGED image

NextLocal == LocalStackSlot \/ LocalRetype \/ Localize \/ CreateAlloca
SpecLocal == InitLocal /\ [][NextLocal]_vars

isAlloca(v) == vals[v].kind = "alloca"

\* C11: in every function the allocas come before every other instruction, so
\* they are in the entry block ahead of every non-alloca instruction; and the
\* alloca an operation returns is in the function it was asked for.
AllocasLeadEntryBlock ==
    /\ \A f \in Fns : \A i, j \in DOMAIN body[f] :
            (i < j /\ isAlloca(body[f][j])) => isAlloca(body[f][i])
    /\ (last.op # "init" /\ last.ret # Null) =>
            /\ isAlloca(last.ret)
            /\ InSeq(body[last.fn], last.ret)

\* a function that got an alloca from each kind of operation: the function
\* has at least three allocas, the last call made one, and instructions that
\* are not allocas follow
AllocasLeadWitness ==
    /\ last.op = "retype"
    /\ last.ret \notin DOMAIN last.pre.vals
    /\ last.pre.vals[Len(last.pre.vals)].kind = "alloca"
    /\ Cardinality({i \in DOMAIN body[1] : isAlloca(body[1][i])}) >= 3

Localized == last.op = "localize"
\* the pointer operand of the store that was localized, its function before
\* and after the call, and where the store was
localizedPtr == last.pre.vals[last.def].ops[2]
bodyBefore == last.pre.body[last.fn]
bodyAfter == body[last.fn]
\* the new alloca is put in at the head, so what was at i is now at i + 1
storeNow == bodyAfter[IndexOf(bodyBefore, last.def) + 1]

\* the original store is erased, the new alloca heads the function, and a
\* store of the same value into the new alloca stands where the store was
StoreLocalized ==
    /\ ~InSeq(bodyAfter, last.def)
    /\ Len(bodyAfter) = Len(bodyBefore) + 1
    /\ bodyAfter[1] = last.ret
    /\ vals[last.ret].kind = "alloca"
    /\ vals[last.ret].type = last.pre.vals[localizedPtr].type
    /\ vals[storeNow].kind = "store"
    /\ vals[storeNow].ops = <<last.pre.vals[last.def].ops[1], last.ret>>

\* C15 as stated: after localize, the pointer operand of the store is an
\* operand of no instruction of the function: the store is erased and replaced
\* by a store into the new alloca, and every instruction of the function that
\* referenced the pointer references the new alloca.
LocalizeLeavesNoUse ==
    Localized =>
        /\ StoreLocalized
        /\ \A i \in DOMAIN bodyAfter : ~HasOperand(Cur, bodyAfter[i], localizedPtr)
        /\ \A u \in usesOfPointer(last.pre, last.def) : HasOperand(Cur, u, last.ret)

\* C15, amended: after localize, the store is erased and replaced by a store
\* into the new alloca, the instructions given as uses reference the new
\* alloca where they referenced the pointer, and every other instruction of
\* the function is as it was, so one that referenced the pointer and was not
\* given still references it.
LocalizePatchesGivenUses ==
    Localized =>
        /\ StoreLocalized
        /\ \A u \in last.uses :
            /\ ~HasOperand(Cur, u, localizedPtr)
            /\ vals[u].ops = [i \in DOMAIN last.pre.vals[u].ops |->
                                IF last.pre.vals[u].ops[i] = localizedPtr
                                THEN last.ret ELSE last.pre.vals[u].ops[i]]
        /\ \A u \in DOMAIN last.pre.vals : u \notin last.uses => vals[u] = last.pre.vals[u]

\* a store localized with one of the two loads of the pointer given as a use:
\* the other load still loads from the pointer
LocalizeWitness ==
    /\ Localized
    /\ last.uses # {}
    /\ \E u \in usesOfPointer(last.pre, last.def) :
            u \notin last.uses /\ HasOperand(Cur, u, localizedPtr)

\* the last call was getGlobalVariable for an address that has data, where
\* no initializer can be read, and that had no global yet
GotUnreadable ==
    /\ Got
    /\ hasDataOnAddress(last.addr)
    /\ image.mem[last.addr].init = "none"
    /\ ~image.mem[last.addr].typed
    /\ configAt(last.pre, last.addr) = {}

\* C12 as stated: when no initializer can be read for an address that can have
\* a global, getGlobalVariable returns null, the config keeps an entry for the
\* address, and the global built during the call is no longer in the module.
UnreadableDiscardsGlobal ==
    GotUnreadable =>
        /\ last.ret = Null
        /\ configAt(Cur, last.addr) # {}
        /\ module = last.pre.module

-----------------------------------------------------------------------------
(* The type of a new global: addresses with data for which the debug info, *)
(* a config loaded before the module has globals, and the crypto patterns  *)
(* each have a type or not, readable with the type chosen or not.          *)

DebugType == F64
ConfigType == I64
CryptoType == ArrTy(I32)

TypedMem(dbg, crypto, typed) ==
    [data |-> TRUE, code |-> FALSE, str |-> FALSE, word |-> NoAddr,
     dbg |-> IF dbg THEN DebugType ELSE Null,
     crypto |-> IF crypto THEN CryptoType ELSE Null,
     typed |-> typed, init |-> "word"]

InitTyped ==
    /\ vals = <<>>
    /\ body = [f \in {1} |-> <<>>]
    /\ module = {}
    /\ stack = {}
    /\ eraseSet = {}
    /\ \E dbg, crypto, typed \in [Addrs -> BOOLEAN], cfg \in SUBSET Addrs :
        /\ image = [arm |-> FALSE,
                    mem |-> [a \in Addrs |-> TypedMem(dbg[a], crypto[a], typed[a])]]
        /\ config = {[name |-> <<"config", a>>, addr |-> a, type |-> ConfigType,
                      wide |-> FALSE] : a \in cfg}
    /\ last = [op |-> "init", addr |-> NoAddr, ret |-> Null, n |-> 0,
               hist |-> [a \in Addrs |-> <<>>]]

NextTyped == GetGlobalVariable
SpecTyped == InitTyped /\ [][NextTyped]_vars

\* the last call made a global
GotNew == Got /\ last.ret # Null /\ last.ret \notin last.pre.module

\* the last of the sources of a type that exists for address a in state st:
\* debug info, then the config, then the crypto patterns
lastSource(st, a) ==
    CASE image.mem[a].crypto # Null -> "crypto"
      [] configAt(st, a) # {} -> "config"
      [] image.mem[a].dbg # Null -> "debug"
      [] OTHER -> "default"

typeBySource(st, a, source) ==
    CASE source = "crypto" -> image.mem[a].crypto
      [] source = "config" -> (CHOOSE c \in configAt(st, a) : TRUE).type
      [] source = "debug" -> image.mem[a].dbg
      [] OTHER -> DefaultType

\* C14 as stated: a global made for an address whose bytes can be read with
\* the type chosen has the type of the last source that exists for the
\* address, in the order debug info, config, crypto pattern.
TypeFromLastSource ==
    (GotNew /\ image.mem[last.addr].typed) =>
        getElementType(vals[last.ret].type) =
            typeBySource(last.pre, last.addr, lastSource(last.pre, last.addr))

\* the last call converted, with instructions, a load of an aggregate to
\* another type
ConvertedAggregateLoad ==
    /\ last.op = "convert"
    /\ last.mode \in {"before", "after"}
    /\ last.pre.vals[last.val].kind = "load"
    /\ isAggregateType(last.pre.vals[last.val].type)
    /\ last.pre.vals[last.val].type # last.type
    /\ HasRule(last.type)

\* what is returned is a new load through a bitcast, to a pointer to the
\* target type, of the pointer the load loads from, and no element is
\* extracted from the load
LoadsThroughBitCast ==
    /\ last.ret \notin DOMAIN last.pre.vals
    /\ vals[last.ret].kind = "load"
    /\ vals[last.ret].type = last.type
    /\ LET c == vals[last.ret].ops[1]
       IN  /\ vals[c].kind = "cast" /\ vals[c].op = "bitcast"
           /\ vals[c].type = PtrTo(last.type)
           /\ vals[c].ops = <<last.pre.vals[last.val].ops[1]>>
           /\ inBlock(Cur, c) /\ inBlock(Cur, last.ret)
    /\ \A v \in DOMAIN vals : vals[v].kind # "extractvalue"

\* C16 as stated: convert of a load of an aggregate, with instructions,
\* returns a new load through a bitcast of the load's pointer to a pointer to
\* the target type, with no extractvalue; the new load replaces the load in
\* its users and the load is erased or put in the erase-set.
AggregateLoadReplaced ==
    ConvertedAggregateLoad =>
        /\ LoadsThroughBitCast
        /\ \A u \in DOMAIN vals : present(Cur, u) => ~HasOperand(Cur, u, last.val)
        /\ ~inBlock(Cur, last.val) \/ last.val \in eraseSet

-----------------------------------------------------------------------------
(* Conversions with no rule: convert and changeObjectType with any type,   *)
(* void and function types included, in a build with assertions, where     *)
(* assert(false) ends the program, and in one without, where it does not   *)
(* (ir_modifier.cpp:272-279).                                              *)

MaxAnyOps == 1
Builds == {"assert", "ndebug"}
AnySources == {I32, F64, PtrTo(I32), StructTy(1)}
AnyTypes == {VoidTy, FuncTy, I32}

\* 1..5 as in ConvVals, 6: an alloca, 7: a store of 2 into 6, 8: a load of 6,
\* 9: an instruction using 8
AnyVals(S) == ConvVals(S) \o <<
    Value("alloca", PtrTo(S), <<>>, "", <<"a", 0>>),
    Value("store", VoidTy, <<2, 6>>, "", NoName),
    Value("load", S, <<6>>, "", NoName),
    Value("other", VoidTy, <<8>>, "", NoName) >>

InitAny ==
    /\ \E S \in AnySources : vals = AnyVals(S)
    /\ body = [f \in {1} |-> <<6, 4, 5, 7, 8, 9>>]
    /\ module = {}
    /\ config = {}
    /\ stack = {}
    /\ eraseSet = {}
    /\ image = NoImage
    /\ last = [op |-> "init", n |-> 0]

\* a null operand: what a conversion that returned nullptr leaves in a user
hasNullOperand(st) ==
    \E u \in DOMAIN st.vals : present(st, u) /\ HasOperand(st, u, Null)

\* the call ends the program in assert(false), or returns with state st
Outcome(op, v, T, build, unhandled, st, ret) ==
    IF unhandled /\ build = "assert"
    THEN /\ UNCHANGED <<vals, body, module, config, stack, eraseSet>>
         /\ last' = [op |-> op, n |-> last.n + 1, val |-> v, type |-> T,
                     build |-> build, outcome |-> "aborted", ret |-> Null,
                     pre |-> Cur]
    ELSE /\ Install(st)
         /\ last' = [op |-> op, n |-> last.n + 1, val |-> v, type |-> T,
                     build |-> build, outcome |-> "returned", ret |-> ret,
                     pre |-> Cur]

\* convertValueToType(v, T, before) for any value and type
ConvertAnyPair ==
    \E v \in DOMAIN vals, T \in AnyTypes, b \in DOMAIN vals, build \in Builds :
        /\ last.n < MaxAnyOps
        /\ present(Cur, v)
        /\ isInstruction(Cur, b) /\ inBlock(Cur, b)
        /\ LET r == convertValueToType(Cur, v, T, b)
           IN  Outcome("convert", v, T, build, r.ret = Null, r.ir, r.ret)
        /\ UNCHANGED image

\* changeObjectType(objf, alloca, T) for any type
ChangeToAnyType ==
    \E v \in DOMAIN vals, T \in AnyTypes, build \in Builds :
        /\ last.n < MaxAnyOps
        /\ vals[v].kind = "alloca" /\ inBlock(Cur, v)
        /\ LET r == changeObjectType(Cur, v, T, Null, FALSE, FALSE)
           IN  Outcome("change", v, T, build, hasNullOperand(r.ir), r.ir, r.ret)
        /\ UNCHANGED image

NextAny == ConvertAnyPair \/ ChangeToAnyType
SpecAny == InitAny /\ [][NextAny]_vars

\* the last call was convert for a pair of different types one of which is a
\* void or a function type
ConvertedNoRule ==
    /\ last.op = "convert"
    /\ last.pre.vals[last.val].type # last.type
    /\ ~HasRule(last.pre.vals[last.val].type) \/ ~HasRule(last.type)

\* C13 as stated: convert for a pair of types with no rule fails and returns
\* nothing to its caller, and changeObjectType leaves no result of such a
\* conversion as an operand of a user.
UnsupportedConversionFails ==
    /\ ConvertedNoRule => last.outcome = "aborted"
    /\ ~hasNullOperand(Cur)

\* C17: the chain 'the initializer of a global is itself a global' followed
\* from any global of the module, as the cycle check of getGlobalVariable
\* follows it from its candidate, for a global being built (which nothing
\* refers to yet) or for any global of the module, never comes back to a
\* global it has passed: it ends at the global looked for, at a global with no
\* initializer or at a constant that is not a global.
InitializerChainEnds ==
    \A c \in module : \A gv \in module \cup {Null} :
        initializerChain(Cur, gv, c, {}) \in {"hit", "end"}

\* getGlobalVariable made a global whose initializer, which went through the
\* cycle check, is a global of the module that refers to itself through a
\* constant expression
InitializerChainWitness ==
    /\ GotNew
    /\ vals[last.ret].ops # <<>>
    /\ LET c == vals[last.ret].ops[1]
       IN  /\ isGlobalVariable(Cur, c)
           /\ c \in module
           /\ initializerReaches(c, c, Len(vals))

====
